------------------------------ MODULE Spec2Model ------------------------------
(***************************************************************************)
(* Insurance Lead Qualifier (src/app/main.py).                             *)
(*                                                                         *)
(* A Python str is modelled as a sequence of one-character strings, so     *)
(* that substring tests and the regular expressions of extract_entities    *)
(* are computed character by character.  An Optional value is None (the    *)
(* empty tuple) or Some(v) (the one-element tuple).  A float amount of     *)
(* dollars is held in hundredths of a dollar (the patterns admit at most   *)
(* two decimals).                                                          *)
(***************************************************************************)
EXTENDS Integers, Sequences, FiniteSets, TLC

VARIABLES
  pc,          \* position of the handler or function being executed
  text,        \* the utterance (user_msg) or transcript being processed
  e,           \* the dict returned by extract_entities
  nq,          \* the value returned by next_question
  score,       \* the value returned by score_lead
  local,       \* the reply of local_qualifier_reply
  env,         \* process environment: OPENAI_API_KEY set?, CRM_WEBHOOK_URL
  messages,    \* req.messages of the /chat request in flight
  llm,         \* what call_openai returned
  obtained,    \* history: did the service deliver a completion to call_openai
  posts,       \* history: outcome of each CRM post made for the request in flight
  crm,         \* (status, note) returned by post_to_crm
  out,         \* the response body of the request in flight
  prev         \* history: user_msg, length and local reply of the chat served before

vars == <<pc, text, e, nq, score, local, env, messages, llm, obtained,
          posts, crm, out, prev>>

-----------------------------------------------------------------------------
(* Optional values and Python truthiness *)

None == <<>>
Some(v) == <<v>>

\* bool(x) of an Optional[int] or Optional[float]: None and 0 are falsy
TruthyNum(x) == x # None /\ x[1] # 0

\* bool(x) of an Optional[str]: None and "" are falsy
TruthyStr(x) == x # None /\ x[1] # <<>>

\* bool(x) of the Optional[str] of next_question (a question text)
TruthyText(x) == x # None /\ x[1] # ""

\* (x or 0) for an Optional number
OrZero(x) == IF TruthyNum(x) THEN x[1] ELSE 0

Min2(a, b) == IF a <= b THEN a ELSE b

MinOf(S) == CHOOSE x \in S : \A y \in S : x <= y

MaxOf(S) == CHOOSE x \in S : \A y \in S : y <= x

-----------------------------------------------------------------------------
(* Characters *)

LowerOf ==
  [A |-> "a", B |-> "b", C |-> "c", D |-> "d", E |-> "e", F |-> "f", G |-> "g",
   H |-> "h", I |-> "i", J |-> "j", K |-> "k", L |-> "l", M |-> "m", N |-> "n",
   O |-> "o", P |-> "p", Q |-> "q", R |-> "r", S |-> "s", T |-> "t", U |-> "u",
   V |-> "v", W |-> "w", X |-> "x", Y |-> "y", Z |-> "z"]

UpperOf ==
  [a |-> "A", b |-> "B", c |-> "C", d |-> "D", e |-> "E", f |-> "F", g |-> "G",
   h |-> "H", i |-> "I", j |-> "J", k |-> "K", l |-> "L", m |-> "M", n |-> "N",
   o |-> "O", p |-> "P", q |-> "Q", r |-> "R", s |-> "S", t |-> "T", u |-> "U",
   v |-> "V", w |-> "W", x |-> "X", y |-> "Y", z |-> "Z"]

DigitVal ==
  ("0" :> 0) @@ ("1" :> 1) @@ ("2" :> 2) @@ ("3" :> 3) @@ ("4" :> 4) @@
  ("5" :> 5) @@ ("6" :> 6) @@ ("7" :> 7) @@ ("8" :> 8) @@ ("9" :> 9)

IsUpper(c) == c \in DOMAIN LowerOf          \* [A-Z]
IsLower(c) == c \in DOMAIN UpperOf          \* [a-z]
IsLetter(c) == IsUpper(c) \/ IsLower(c)     \* [A-Za-z]
IsDigit(c) == c \in DOMAIN DigitVal         \* [0-9]
NotDigit(c) == ~IsDigit(c)                  \* [^0-9]
IsSpace(c) == c = " "                       \* \s
IsWord(c) == IsLetter(c) \/ IsDigit(c) \/ c = "_"   \* \w

Lower(c) == IF IsUpper(c) THEN LowerOf[c] ELSE c
Upper(c) == IF IsLower(c) THEN UpperOf[c] ELSE c

\* str.lower and str.upper
lower(s) == [i \in 1..Len(s) |-> Lower(s[i])]
upper(s) == [i \in 1..Len(s) |-> Upper(s[i])]

\* str.strip
strip(s) ==
  LET keep == {i \in 1..Len(s) : ~IsSpace(s[i])}
  IN IF keep = {} THEN <<>> ELSE SubSeq(s, MinOf(keep), MaxOf(keep))

\* str.title: a letter that follows a letter is lowered, any other is raised
title(s) ==
  [i \in 1..Len(s) |->
     IF i > 1 /\ IsLetter(s[i - 1]) THEN Lower(s[i]) ELSE Upper(s[i])]

\* lit in s
Contains(s, lit) ==
  \E i \in 1..(Len(s) - Len(lit) + 1) : SubSeq(s, i, i + Len(lit) - 1) = lit

-----------------------------------------------------------------------------
(* Regular-expression pieces (re.search: the leftmost match wins) *)

\* the literal lit at position i of s
LitAt(s, i, lit) ==
  /\ i >= 1
  /\ i + Len(lit) - 1 <= Len(s)
  /\ SubSeq(s, i, i + Len(lit) - 1) = lit

WordAt(s, i) == i >= 1 /\ i <= Len(s) /\ IsWord(s[i])

\* \b between s[i] and s[i+1] (i = 0: start of s, i = Len(s): end of s)
Boundary(s, i) == WordAt(s, i) # WordAt(s, i + 1)

\* [A-Za-z0-9\- ]
IsProviderChar(c) == IsLetter(c) \/ IsDigit(c) \/ c = "-" \/ c = " "

\* the character classes that the patterns repeat
InClass(c, class) ==
  CASE class = "[0-9]"          -> IsDigit(c)
    [] class = "[^0-9]"         -> NotDigit(c)
    [] class = "\\s"            -> IsSpace(c)
    [] class = "[:\\s]"         -> c = ":" \/ IsSpace(c)
    [] class = "[A-Za-z0-9\\- ]" -> IsProviderChar(c)

\* the number of consecutive characters of the class from position i on
Run(s, i, class) ==
  MaxOf({j \in (i - 1)..Len(s) : \A k \in i..j : InClass(s[k], class)}) - (i - 1)

DigitAt(s, i) == i >= 1 /\ i <= Len(s) /\ IsDigit(s[i])

RECURSIVE IntOf(_)
\* int() of a string of digits
IntOf(ds) ==
  IF ds = <<>> THEN 0
  ELSE 10 * IntOf(SubSeq(ds, 1, Len(ds) - 1)) + DigitVal[ds[Len(ds)]]

\* float() of the group ([0-9]+(?:\.[0-9]{1,2})?) that starts at p, in cents
NumberAt(s, p) ==
  LET n == Run(s, p, "[0-9]")
      q == p + n
      f == IF q <= Len(s) /\ s[q] = "." THEN Min2(Run(s, q + 1, "[0-9]"), 2)
           ELSE 0
      frac == IF f = 0 THEN 0
              ELSE IF f = 1 THEN 10 * DigitVal[s[q + 1]]
              ELSE 10 * DigitVal[s[q + 1]] + DigitVal[s[q + 2]]
  IN 100 * IntOf(SubSeq(s, p, q - 1)) + frac

-----------------------------------------------------------------------------
(* extract_entities *)

STATES ==
  {
    <<"A","L">>, <<"A","K">>, <<"A","Z">>, <<"A","R">>, <<"C","A">>, <<"C","O">>,
    <<"C","T">>, <<"D","E">>, <<"F","L">>, <<"G","A">>, <<"H","I">>, <<"I","D">>,
    <<"I","L">>, <<"I","N">>, <<"I","A">>, <<"K","S">>, <<"K","Y">>, <<"L","A">>,
    <<"M","E">>, <<"M","D">>, <<"M","A">>, <<"M","I">>, <<"M","N">>, <<"M","S">>,
    <<"M","O">>, <<"M","T">>, <<"N","E">>, <<"N","V">>, <<"N","H">>, <<"N","J">>,
    <<"N","M">>, <<"N","Y">>, <<"N","C">>, <<"N","D">>, <<"O","H">>, <<"O","K">>,
    <<"O","R">>, <<"P","A">>, <<"R","I">>, <<"S","C">>, <<"S","D">>, <<"T","N">>,
    <<"T","X">>, <<"U","T">>, <<"V","T">>, <<"V","A">>, <<"W","A">>, <<"W","V">>,
    <<"W","I">>, <<"W","Y">>, <<"D","C">>
  }

\* fault variant: the keyword list in alphabetical order
CoverageKeys_Alphabetical ==
  << <<"a","u","t","o">>, <<"b","u","s","i","n","e","s","s">>, <<"c","a","r">>, <<"h","e","a","l","t","h">>, <<"h","o","m","e">>, <<"l","i","f","e">>, <<"r","e","n","t","e","r","s">> >>

\* the keyword list of the coverage loop, in its order
CoverageKeys ==
  << <<"l","i","f","e">>, <<"a","u","t","o">>, <<"c","a","r">>, <<"h","o","m","e">>, <<"r","e","n","t","e","r","s">>, <<"h","e","a","l","t","h">>, <<"b","u","s","i","n","e","s","s">> >>

\* coverage = "auto" if key == "car" else key
NormalizeKey(key) == IF key = <<"c","a","r">> THEN <<"a","u","t","o">> ELSE key

\* the coverage loop: the first key of the list that is in t
CoverageOf(t) ==
  LET hits == {k \in 1..Len(CoverageKeys) : Contains(t, CoverageKeys[k])}
  IN IF hits = {} THEN None ELSE Some(NormalizeKey(CoverageKeys[MinOf(hits)]))

BudgetGap == 12
UrgencyGap == 8
ProviderMax == 40

\* budget[^0-9]{0,12}\$?\s*([0-9]+...) matches at i
BudgetPass1At(t, i) ==
  /\ LitAt(t, i, <<"b","u","d","g","e","t">>)
  /\ \E k \in 0..BudgetGap : \E dollar \in {0, 1} :
       LET a == i + 6
           b == a + k + dollar
       IN /\ b <= Len(t) + 1
          /\ \A j \in a..(a + k - 1) : NotDigit(t[j])
          /\ dollar = 1 => t[a + k] = "$"
          /\ DigitAt(t, b + Run(t, b, "\\s"))

\* \$\s*([0-9]+...) matches at i
BudgetPass2At(t, i) ==
  /\ LitAt(t, i, <<"$">>)
  /\ DigitAt(t, i + 1 + Run(t, i + 1, "\\s"))

\* the budget block: pass 1, else pass 2; float(m.group(1))
BudgetOf(t) ==
  LET m1 == {i \in 1..Len(t) : BudgetPass1At(t, i)}
      m2 == {i \in 1..Len(t) : BudgetPass2At(t, i)}
  IN IF m1 # {}
       THEN LET a == MinOf(m1) + 6
            IN Some(NumberAt(t, a + Run(t, a, "[^0-9]")))
     ELSE IF m2 # {}
       THEN LET a == MinOf(m2) + 1
            IN Some(NumberAt(t, a + Run(t, a, "\\s")))
     ELSE None

\* fault variant: \b([0-9][0-9])\b, any two digits
AgeAt_AnyTwoDigits(t, i) ==
  /\ Boundary(t, i - 1)
  /\ DigitAt(t, i) /\ DigitAt(t, i + 1)
  /\ Boundary(t, i + 1)

\* \b(1[6-9]|[2-9][0-9])\b matches at i
AgeAt(t, i) ==
  /\ Boundary(t, i - 1)
  /\ DigitAt(t, i) /\ DigitAt(t, i + 1)
  /\ \/ t[i] = "1" /\ DigitVal[t[i + 1]] >= 6
     \/ DigitVal[t[i]] >= 2
  /\ Boundary(t, i + 1)

\* the age block
AgeOf(t) ==
  LET m == {i \in 1..Len(t) : AgeAt(t, i)}
  IN IF m = {} THEN None
     ELSE Some(IntOf(SubSeq(t, MinOf(m), MinOf(m) + 1)))

IsUrgencyDigit(t, i) ==
  i >= 1 /\ i <= Len(t) /\ t[i] \in {"1", "2", "3", "4", "5"}

\* \burgency\b[^0-9]{0,8}([1-5])\b matches at i with the group at position g
UrgencyPass1At(t, i, g) ==
  /\ Boundary(t, i - 1)
  /\ LitAt(t, i, <<"u","r","g","e","n","c","y">>)
  /\ Boundary(t, i + 6)
  /\ g - (i + 7) \in 0..UrgencyGap
  /\ \A j \in (i + 7)..(g - 1) : NotDigit(t[j])
  /\ IsUrgencyDigit(t, g)
  /\ Boundary(t, g)

\* \b([1-5])\s*(?:/|of)\s*5\b matches at i
UrgencyPass2At(t, i) ==
  /\ Boundary(t, i - 1)
  /\ IsUrgencyDigit(t, i)
  /\ LET a == i + 1 + Run(t, i + 1, "\\s")
         b == IF LitAt(t, a, <<"/">>) THEN a + 1
              ELSE IF LitAt(t, a, <<"o","f">>) THEN a + 2
              ELSE 0
         c == b + Run(t, b, "\\s")
     IN /\ b # 0
        /\ LitAt(t, c, <<"5">>)
        /\ Boundary(t, c)

\* the urgency block
UrgencyOf(t) ==
  LET m1 == {i \in 1..Len(t) : \E g \in i..Len(t) : UrgencyPass1At(t, i, g)}
      m2 == {i \in 1..Len(t) : UrgencyPass2At(t, i)}
  IN IF m1 # {}
       THEN LET i == MinOf(m1)
                g == CHOOSE g \in i..Len(t) : UrgencyPass1At(t, i, g)
            IN Some(DigitVal[t[g]])
     ELSE IF m2 # {} THEN Some(DigitVal[t[MinOf(m2)]])
     ELSE None

\* \bstate[:\s]+([A-Za-z]{2})\b (IGNORECASE) matches at i
StateMarkAt(s, i) ==
  /\ Boundary(s, i - 1)
  /\ i + 4 <= Len(s)
  /\ lower(SubSeq(s, i, i + 4)) = <<"s","t","a","t","e">>
  /\ LET n == Run(s, i + 5, "[:\\s]")
         p == i + 5 + n
     IN /\ n >= 1
        /\ p + 1 <= Len(s)
        /\ IsLetter(s[p]) /\ IsLetter(s[p + 1])
        /\ Boundary(s, p + 1)

\* group(1) of the match of the state-marker pattern at i
StateMarkGroup(s, i) ==
  LET p == i + 5 + Run(s, i + 5, "[:\\s]")
  IN SubSeq(s, p, p + 1)

\* \b([A-Z]{2})\b matches at i
CapsTokenAt(s, i) ==
  /\ Boundary(s, i - 1)
  /\ i + 1 <= Len(s)
  /\ IsUpper(s[i]) /\ IsUpper(s[i + 1])
  /\ Boundary(s, i + 1)

\* the state block, on the original text
StateOf(s) ==
  LET m1 == {i \in 1..Len(s) : StateMarkAt(s, i)}
      m2 == {i \in 1..Len(s) : CapsTokenAt(s, i)}
  IN IF m1 # {} /\ upper(StateMarkGroup(s, MinOf(m1))) \in STATES
       THEN Some(upper(StateMarkGroup(s, MinOf(m1))))
     ELSE IF m2 # {} /\ upper(SubSeq(s, MinOf(m2), MinOf(m2) + 1)) \in STATES
       THEN Some(upper(SubSeq(s, MinOf(m2), MinOf(m2) + 1)))
     ELSE None

\* provider\s+is\s+([A-Za-z][A-Za-z0-9\- ]{1,40}) matches at i
ProviderAt(t, i) ==
  /\ LitAt(t, i, <<"p","r","o","v","i","d","e","r">>)
  /\ LET n1 == Run(t, i + 8, "\\s")
         a == i + 8 + n1
         n2 == Run(t, a + 2, "\\s")
         p == a + 2 + n2
     IN /\ n1 >= 1
        /\ LitAt(t, a, <<"i","s">>)
        /\ n2 >= 1
        /\ p + 1 <= Len(t)
        /\ IsLetter(t[p])
        /\ IsProviderChar(t[p + 1])

\* group(1) of the match of the provider pattern at i
ProviderGroup(t, i) ==
  LET a == i + 8 + Run(t, i + 8, "\\s")
      p == a + 2 + Run(t, a + 2, "\\s")
  IN SubSeq(t, p, p + Min2(Run(t, p + 1, "[A-Za-z0-9\\- ]"), ProviderMax))

\* the provider block
ProviderOf(t) ==
  LET m == {i \in 1..Len(t) : ProviderAt(t, i)}
  IN IF m = {} THEN None
     ELSE Some(title(strip(ProviderGroup(t, MinOf(m)))))

extract_entities(txt) ==
  LET t == lower(txt)
  IN [coverage |-> CoverageOf(t),
      budget   |-> BudgetOf(t),
      age      |-> AgeOf(t),
      state    |-> StateOf(txt),
      urgency  |-> UrgencyOf(t),
      provider |-> ProviderOf(t)]

-----------------------------------------------------------------------------
(* next_question, score_lead, local_qualifier_reply *)

\* the question texts (their en dashes written as hyphens)
Q_coverage == "What kind of insurance do you need (life, auto, home, renters, health, or business)?"
Q_state == "Which U.S. state are you in? (2-letter code like CA or TX)"
Q_age == "What is your age?"
Q_budget == "What is your monthly budget in dollars?"
Q_urgency == "On a scale of 1-5, how urgent is your request?"

\* fault variant: the budget tested by truth value, as coverage, state and age are
next_question_BudgetTruthy(entities) ==
  IF ~TruthyStr(entities.coverage) THEN Some(Q_coverage)
  ELSE IF ~TruthyStr(entities.state) THEN Some(Q_state)
  ELSE IF ~TruthyNum(entities.age) THEN Some(Q_age)
  ELSE IF ~TruthyNum(entities.budget) THEN Some(Q_budget)
  ELSE IF entities.urgency = None THEN Some(Q_urgency)
  ELSE None

\* fault variant: the budget is not on the checklist
next_question_NoBudget(entities) ==
  IF ~TruthyStr(entities.coverage) THEN Some(Q_coverage)
  ELSE IF ~TruthyStr(entities.state) THEN Some(Q_state)
  ELSE IF ~TruthyNum(entities.age) THEN Some(Q_age)
  ELSE IF entities.urgency = None THEN Some(Q_urgency)
  ELSE None

next_question(entities) ==
  IF ~TruthyStr(entities.coverage) THEN Some(Q_coverage)
  ELSE IF ~TruthyStr(entities.state) THEN Some(Q_state)
  ELSE IF ~TruthyNum(entities.age) THEN Some(Q_age)
  ELSE IF entities.budget = None THEN Some(Q_budget)
  ELSE IF entities.urgency = None THEN Some(Q_urgency)
  ELSE None

ScoreCap == 10
BudgetBonus == 100
UrgencyBonus == 4

\* one point per condition that holds
Point(cond) == IF cond THEN 1 ELSE 0

\* fault variant: the budget point given by truth value
score_lead_BudgetTruthy(entities) ==
  Min2(  Point(TruthyStr(entities.coverage))
       + Point(TruthyStr(entities.state))
       + Point(TruthyNum(entities.age))
       + Point(TruthyNum(entities.budget))
       + Point(entities.urgency # None)
       + Point(OrZero(entities.budget) >= 100 * BudgetBonus)
       + Point(OrZero(entities.urgency) >= UrgencyBonus),
       ScoreCap)

score_lead(entities) ==
  Min2(  Point(TruthyStr(entities.coverage))
       + Point(TruthyStr(entities.state))
       + Point(TruthyNum(entities.age))
       + Point(entities.budget # None)
       + Point(entities.urgency # None)
       + Point(OrZero(entities.budget) >= 100 * BudgetBonus)
       + Point(OrZero(entities.urgency) >= UrgencyBonus),
       ScoreCap)

\* the keys of the dict of extract_entities, in insertion order
Fields == <<"coverage", "budget", "age", "state", "urgency", "provider">>

IsStrField(k) == k \in {"coverage", "state", "provider"}

\* v not in (None, "")
HasValue(ent, k) == ent[k] # None /\ ~(IsStrField(k) /\ ent[k][1] = <<>>)

\* the (k, v) pairs joined into <<"c","o","l","l","e","c","t","e","d">>
Collected(ent) ==
  LET Kept(k) == HasValue(ent, k)
      ks == SelectSeq(Fields, Kept)
  IN [i \in 1..Len(ks) |-> <<ks[i], ent[ks[i]][1]>>]

\* format(x, ".0f") of an amount held in cents: round half to even
FormatWhole(cents) ==
  LET w == cents \div 100
      r == cents % 100
  IN IF r < 50 THEN w
     ELSE IF r > 50 THEN w + 1
     ELSE IF w % 2 = 0 THEN w ELSE w + 1

\* a reply: a clarifying question with its "Got it (...)" prefix, the
\* completion summary, a text of the LLM helper, or an exception
QuestionReply(got, ask) ==
  [kind |-> "question", got |-> got, ask |-> ask, summary |-> None, raw |-> <<>>]

SummaryReply(s) ==
  [kind |-> "summary", got |-> <<>>, ask |-> "", summary |-> Some(s), raw |-> <<>>]

TextReply(chars) ==
  [kind |-> "text", got |-> <<>>, ask |-> "", summary |-> None, raw |-> chars]

Raised(what) ==
  [kind |-> "raise", got |-> <<>>, ask |-> what, summary |-> None, raw |-> <<>>]

\* local_qualifier_reply after e and nq are computed: the question branch, or
\* the completion template, whose {e['budget']:.0f} raises TypeError on None
RenderReply(ent, q) ==
  IF TruthyText(q)
    THEN QuestionReply(Collected(ent), q[1])
  ELSE IF ent.budget = None
    THEN Raised("TypeError")
  ELSE SummaryReply([coverage |-> ent.coverage,
                     state    |-> ent.state,
                     age      |-> ent.age,
                     dollars  |-> FormatWhole(ent.budget[1]),
                     urgency  |-> ent.urgency,
                     score    |-> score_lead(ent)])

\* nq = next_question(e), then the reply
ReplyFor(ent) == RenderReply(ent, next_question(ent))

local_qualifier_reply(user_msg) == ReplyFor(extract_entities(user_msg))

-----------------------------------------------------------------------------
(* Inputs *)

MaxFrags == 3

RECURSIVE Concats(_, _)
\* the concatenations of at most n fragments of the vocabulary V
Concats(V, n) ==
  IF n = 0 THEN {<<>>}
  ELSE LET S == Concats(V, n - 1) IN S \cup {s \o f : s \in S, f \in V}

CoverageVocab ==
  {<<"l","i","f","e">>, <<"a","u","t","o">>, <<"c","a","r">>, <<"h","o","m","e">>, <<"R","e","n","t","e","r","s">>, <<"H","E","A","L","T","H">>, <<"b","u","s","i","n","e","s","s">>, <<" ">>}

StateVocab ==
  {<<"s","t","a","t","e"," ">>, <<"S","t","a","t","e",":"," ">>, <<"T","X">>, <<"t","x">>, <<"M","Y">>, <<"o","f">>, <<" ">>, <<"x">>}

BudgetVocab ==
  {<<"b","u","d","g","e","t">>, <<" ">>, <<"$">>, <<"8">>, <<"0">>, <<".","5">>, <<"1","0","0"," ">>, <<"a","p","p","r","o","x","i","m","a","t","e","l","y"," ">>}

UrgencyVocab ==
  {<<"u","r","g","e","n","c","y">>, <<" ">>, <<"4">>, <<"6">>, <<"/","5">>, <<" ","o","f"," ","5">>, <<"2","9">>, <<"1","5">>}

ProviderVocab ==
  {<<"p","r","o","v","i","d","e","r"," ","i","s"," ">>, <<"P","r","o","v","i","d","e","r">>, <<" ","i","s">>, <<"a","c","m","e">>, <<" ">>, <<"-">>, <<"9">>, <<"a">>}

LeadVocab ==
  {<<"l","i","f","e"," ","i","n"," ","C","A","."," ">>, <<"I","'","m"," ","2","9","."," ">>, <<"$","1","2","0","/","m","o","n","t","h",","," ","u","r","g","e","n","c","y"," ","4","."," ">>, <<"P","r","o","v","i","d","e","r"," ","i","s"," ","A","c","m","e",".">>,
   <<"c","a","r"," ">>, <<"b","u","d","g","e","t"," ","0"," ">>, <<"s","t","a","t","e",":"," ","t","x"," ">>, <<"5","/","5">>}

Vocabularies ==
  {CoverageVocab, StateVocab, BudgetVocab, UrgencyVocab, ProviderVocab, LeadVocab}

\* the utterances the core is run on
Texts == UNION {Concats(V, MaxFrags) : V \in Vocabularies}

NoReply == Raised("none")

-----------------------------------------------------------------------------
(* The core run on one utterance: local_qualifier_reply step by step *)

InitCore ==
  /\ text \in Texts
  /\ pc = "start"
  /\ e = None
  /\ nq = None
  /\ score = None
  /\ local = NoReply
  /\ env = [openai_key |-> FALSE, crm_url |-> <<>>]
  /\ messages = <<>>
  /\ llm = None
  /\ obtained = FALSE
  /\ posts = <<>>
  /\ crm = None
  /\ out = None
  /\ prev = None

\* e = extract_entities(user_msg)
Extract ==
  /\ pc = "start"
  /\ e' = Some(extract_entities(text))
  /\ pc' = "extracted"
  /\ UNCHANGED <<text, nq, score, local, env, messages, llm, obtained,
                 posts, crm, out, prev>>

\* nq = next_question(e)
Policy ==
  /\ pc = "extracted"
  /\ nq' = next_question(e[1])
  /\ pc' = "asked"
  /\ UNCHANGED <<text, e, score, local, env, messages, llm, obtained,
                 posts, crm, out, prev>>

\* if nq: return prefix + nq
ReplyQuestion ==
  /\ pc = "asked"
  /\ TruthyText(nq)
  /\ local' = RenderReply(e[1], nq)
  /\ pc' = "done"
  /\ UNCHANGED <<text, e, nq, score, env, messages, llm, obtained,
                 posts, crm, out, prev>>

\* s = score_lead(e); return the completion summary
ReplySummary ==
  /\ pc = "asked"
  /\ ~TruthyText(nq)
  /\ score' = Some(score_lead(e[1]))
  /\ local' = RenderReply(e[1], nq)
  /\ pc' = "done"
  /\ UNCHANGED <<text, e, nq, env, messages, llm, obtained,
                 posts, crm, out, prev>>

NextCore == Extract \/ Policy \/ ReplyQuestion \/ ReplySummary

SpecCore == InitCore /\ [][NextCore]_vars

-----------------------------------------------------------------------------
(* The policy and the scorer run on the records of the data model *)

CoverageTypes == {<<"l","i","f","e">>, <<"a","u","t","o">>, <<"h","o","m","e">>, <<"r","e","n","t","e","r","s">>, <<"h","e","a","l","t","h">>, <<"b","u","s","i","n","e","s","s">>}

SampleStates == {<<"C","A">>, <<"T","X">>, <<"D","C">>}
SampleAges == {16, 29, 99}
SampleBudgets == {0, 9999, 10000, 12050}     \* $0, $99.99, $100, $120.50
SampleProviders == {<<"A","c","m","e">>, <<"S","t","a","t","e"," ","F","a","r","m">>}
UrgencyLevels == 1..5

Optionals(S) == {None} \cup {Some(v) : v \in S}

\* the values the data model allows for field k
FieldValues(k) ==
  CASE k = "coverage" -> CoverageTypes
    [] k = "state"    -> SampleStates
    [] k = "age"      -> SampleAges
    [] k = "budget"   -> SampleBudgets
    [] k = "urgency"  -> UrgencyLevels
    [] k = "provider" -> SampleProviders

Records ==
  [coverage : Optionals(CoverageTypes),
   budget   : Optionals(SampleBudgets),
   age      : Optionals(SampleAges),
   state    : Optionals(SampleStates),
   urgency  : Optionals(UrgencyLevels),
   provider : Optionals(SampleProviders)]

InitPolicy ==
  /\ e \in {Some(r) : r \in Records}
  /\ pc = "extracted"
  /\ text = <<>>
  /\ nq = None
  /\ score = None
  /\ local = NoReply
  /\ env = [openai_key |-> FALSE, crm_url |-> <<>>]
  /\ messages = <<>>
  /\ llm = None
  /\ obtained = FALSE
  /\ posts = <<>>
  /\ crm = None
  /\ out = None
  /\ prev = None

\* s = score_lead(e)
Score ==
  /\ pc = "asked"
  /\ score' = Some(score_lead(e[1]))
  /\ pc' = "scored"
  /\ UNCHANGED <<text, e, nq, local, env, messages, llm, obtained,
                 posts, crm, out, prev>>

NextPolicy == Policy \/ Score

SpecPolicy == InitPolicy /\ [][NextPolicy]_vars

-----------------------------------------------------------------------------
(* Properties of the policy and the scorer *)

RequiredOrder == <<"coverage", "state", "age", "budget", "urgency">>

QuestionFor(k) ==
  CASE k = "coverage" -> Q_coverage
    [] k = "state"    -> Q_state
    [] k = "age"      -> Q_age
    [] k = "budget"   -> Q_budget
    [] k = "urgency"  -> Q_urgency

MissingRequired(r) == {i \in 1..Len(RequiredOrder) : r[RequiredOrder[i]] = None}

\* C1: on a record of the data model next_question returns null iff the five
\* required fields are present, otherwise the question of the first missing
\* field in the order coverage, state, age, budget, urgency; the provider
\* never changes the result.
C1_NextQuestion ==
  pc \in {"asked", "scored"} =>
    LET r == e[1]
        miss == MissingRequired(r)
    IN /\ (nq = None) <=> (miss = {})
       /\ miss # {} => nq = Some(QuestionFor(RequiredOrder[MinOf(miss)]))
       /\ \A p \in Optionals(SampleProviders) :
            next_question([r EXCEPT !.provider = p]) = nq

\* a complete record whose budget is exactly 0 has been judged complete
C1_Witness ==
  /\ pc = "asked"
  /\ MissingRequired(e[1]) = {}
  /\ e[1].budget = Some(0)
  /\ e[1].provider = None
  /\ nq = None

\* the seven qualifying conditions of the scoring scheme
Qualifies(r, c) ==
  CASE c = 1 -> r.coverage # None
    [] c = 2 -> r.state # None
    [] c = 3 -> r.age # None
    [] c = 4 -> r.budget # None
    [] c = 5 -> r.urgency # None
    [] c = 6 -> r.budget # None /\ r.budget[1] >= 10000
    [] c = 7 -> r.urgency # None /\ r.urgency[1] >= 4

\* the records that make one more thing true of r: one absent field added,
\* or the budget or the urgency raised
OneMore(r) ==
  UNION {{[r EXCEPT ![k] = Some(v)] : v \in FieldValues(k)} :
           k \in {f \in DOMAIN r : r[f] = None}}
    \cup {[r EXCEPT !.budget = Some(v)] :
            v \in {v \in SampleBudgets : r.budget # None /\ v > r.budget[1]}}
    \cup {[r EXCEPT !.urgency = Some(v)] :
            v \in {v \in UrgencyLevels : r.urgency # None /\ v > r.urgency[1]}}

\* C5: score_lead returns the number of qualifying conditions that hold, a
\* budget of 0 counting as present; the result is in 0..7, below the cap of
\* 10, and making one more condition true never lowers it.
C5_Score ==
  pc = "scored" =>
    LET r == e[1]
        n == Cardinality({c \in 1..7 : Qualifies(r, c)})
    IN /\ score = Some(n)
       /\ n \in 0..7
       /\ n < 10
       /\ \A r2 \in OneMore(r) : score_lead(r2) >= score[1]

\* a record with a budget of exactly 0 and a low urgency scored 5
C5_Witness ==
  /\ pc = "scored"
  /\ MissingRequired(e[1]) = {}
  /\ e[1].budget = Some(0)
  /\ e[1].urgency = Some(3)
  /\ score = Some(5)

-----------------------------------------------------------------------------
(* Properties of the extractor and of the turn reply *)

InRange(x, lo, hi) == x = None \/ (x[1] >= lo /\ x[1] <= hi)

\* C4: extract_entities returns, and every field of the record is absent or
\* within its constraint: coverage one of the six types (never car), budget
\* non-negative, age in 16..99, urgency in 1..5, state one of the 51 codes in
\* upper case.
C4_FieldsInRange ==
  pc # "start" =>
    /\ e # None
    /\ e[1].coverage \in Optionals(CoverageTypes)
    /\ e[1].budget = None \/ e[1].budget[1] >= 0
    /\ InRange(e[1].age, 16, 99)
    /\ InRange(e[1].urgency, 1, 5)
    /\ e[1].state \in Optionals(STATES)
    /\ e[1].state # None => \A i \in 1..2 : IsUpper(e[1].state[1][i])

\* a record extracted from a text that says car and gives a lower-case state
C4_Witness ==
  /\ pc = "extracted"
  /\ Contains(text, <<"c","a","r">>) /\ ~Contains(text, <<"a","u","t","o">>)
  /\ Contains(text, <<"t","x">>)
  /\ e[1].coverage = Some(<<"a","u","t","o">>)
  /\ e[1].state = Some(<<"T","X">>)
  /\ e[1].budget # None /\ e[1].urgency # None

\* the keyword list as the coverage rule states it
RuleKeywords == << <<"l","i","f","e">>, <<"a","u","t","o">>, <<"c","a","r">>, <<"h","o","m","e">>, <<"r","e","n","t","e","r","s">>, <<"h","e","a","l","t","h">>, <<"b","u","s","i","n","e","s","s">> >>

\* C9: the coverage is the keyword that comes earliest in the fixed list among
\* those the lowercased text contains, wherever they stand in the text; car
\* is reported as auto; the coverage is absent exactly when none is contained.
C9_Coverage ==
  pc # "start" =>
    LET t == lower(text)
        found == {k \in 1..Len(RuleKeywords) : Contains(t, RuleKeywords[k])}
    IN /\ (e[1].coverage = None) <=> (found = {})
       /\ \A k \in found :
            (\A j \in found : k <= j) =>
              e[1].coverage =
                Some(IF RuleKeywords[k] = <<"c","a","r">> THEN <<"a","u","t","o">> ELSE RuleKeywords[k])

\* home stands first in the text and car later: car, earlier in the list, wins
C9_Witness ==
  /\ pc = "extracted"
  /\ LitAt(lower(text), 1, <<"h","o","m","e">>)
  /\ Contains(lower(text), <<"c","a","r">>)
  /\ ~Contains(lower(text), <<"a","u","t","o">>) /\ ~Contains(lower(text), <<"l","i","f","e">>)
  /\ e[1].coverage = Some(<<"a","u","t","o">>)

\* the state the extraction rule of C8 prescribes for text s
RuleState(s) ==
  LET marked == {i \in 1..Len(s) :
                   StateMarkAt(s, i) /\ upper(StateMarkGroup(s, i)) \in STATES}
      caps == {i \in 1..Len(s) :
                 CapsTokenAt(s, i) /\ SubSeq(s, i, i + 1) \in STATES}
  IN IF marked # {} THEN Some(upper(StateMarkGroup(s, MinOf(marked))))
     ELSE IF caps # {} THEN Some(SubSeq(s, MinOf(caps), MinOf(caps) + 1))
     ELSE None

\* C8: the state is the XX of an explicit state marker whose XX is a known
\* code, else the first bare two-letter ALL-CAPS token that is a known code,
\* and absent only when the text has neither; an earlier marker or token that
\* is not a known code does not hide a later valid one.
C8_State ==
  pc # "start" => e[1].state = RuleState(text)

\* C7: local_qualifier_reply returns a reply and never raises; the reply is the
\* question of next_question, prefixed by the collected fields iff at least
\* one field was extracted, or it is the completion summary, rendered only
\* when coverage, state, age, budget and urgency are all present.
C7_Reply ==
  pc = "done" =>
    /\ local.kind \in {"question", "summary"}
    /\ TruthyText(nq) =>
         /\ local.kind = "question"
         /\ local.ask = nq[1]
         /\ (local.got # <<>>) <=> (\E k \in DOMAIN e[1] : e[1][k] # None)
         /\ {local.got[i][1] : i \in 1..Len(local.got)}
              = {k \in DOMAIN e[1] : e[1][k] # None}
    /\ ~TruthyText(nq) =>
         /\ local.kind = "summary"
         /\ MissingRequired(e[1]) = {}
         /\ local.summary[1].dollars = FormatWhole(e[1].budget[1])
         /\ local.summary[1].score = score[1]

\* the completion summary was rendered for a complete record
C7_Witness ==
  /\ pc = "done"
  /\ local.kind = "summary"
  /\ MissingRequired(e[1]) = {}
  /\ local.summary[1].dollars = 120

-----------------------------------------------------------------------------
(* The service: the /chat and /extract handlers *)

MaxHistory == 2

\* contents of user messages and transcripts
Utterances == {<<>>, <<"s","t","a","t","e",":"," ","t","x"," ">>, <<"c","a","r"," ">>, <<"l","i","f","e"," ","i","n"," ","C","A","."," ","I","'","m"," ","2","9","."," ","$","1","2","0","/","m","o","n","t","h",","," ","u","r","g","e","n","c","y"," ","4","."," ">>}

RECURSIVE Histories(_)
\* req.messages: the message contents, oldest first, at most n of them
Histories(n) ==
  IF n = 0 THEN {<<>>}
  ELSE LET H == Histories(n - 1) IN H \cup {Append(h, u) : h \in H, u \in Utterances}

\* extract_entities of each utterance, computed once
Extracted == [u \in Utterances |-> extract_entities(u)]

\* the values CRM_WEBHOOK_URL may have in the environment
WebhookUrls == {<<>>, <<" "," ">>, <<"h","t","t","p",":","/","/","c","r","m"," ">>}

\* message.content of a completion the service delivers (None: a null content)
Completions ==
  Optionals({<<>>, <<" "," ","H","i"," ","t","h","e","r","e","!"," "," ">>, <<" "," "," "," "," "," "," "," "," "," "," "," ">>,
             <<"S","u","r","e","!"," ","W","h","i","c","h"," ","s","t","a","t","e"," ","a","r","e"," ","y","o","u"," ","i","n","?">>,
             <<"I"," ","s","a","w"," ","[","L","L","M"," ","e","r","r","o","r",":"," ","x","]"," ","e","a","r","l","i","e","r","."," ","W","h","i","c","h"," ","s","t","a","t","e"," ","a","r","e"," ","y","o","u"," ","i","n","?">>})

\* str(e) of the exceptions of the request: timeout, HTTP status, bad body
LlmFailures == {<<"t","i","m","e","d"," ","o","u","t">>, <<"4","2","9"," ","T","o","o"," ","M","a","n","y"," ","R","e","q","u","e","s","t","s">>, <<"'","c","h","o","i","c","e","s","'">>}

\* the HTTP status codes the CRM answers with
CrmStatuses == {200, 204, 299, 300, 404, 500}

Init ==
  /\ pc = "idle"
  /\ env \in [openai_key : BOOLEAN, crm_url : WebhookUrls]
  /\ text = <<>>
  /\ e = None
  /\ nq = None
  /\ score = None
  /\ local = NoReply
  /\ messages = <<>>
  /\ llm = None
  /\ obtained = FALSE
  /\ posts = <<>>
  /\ crm = None
  /\ out = None
  /\ prev = None

\* a handler runs from its first line once the previous response is sent
Ready == pc \in {"idle", "chat_done", "extract_done"}

\* fault variant: req.messages[0]
UserMsg_First(msgs) == IF msgs # <<>> THEN msgs[1] ELSE <<>>

\* user_msg = req.messages[-1].content if req.messages else ""
UserMsg(msgs) == IF msgs # <<>> THEN msgs[Len(msgs)] ELSE <<>>

\* chat, up to the await of call_openai: user_msg and the local reply
\* (one-element sets bind the values of the local variables e and nq)
ChatBegin ==
  /\ Ready
  /\ \E h \in Histories(MaxHistory) :
     \E ent \in {Extracted[UserMsg(h)]} :
     \E q \in {next_question(ent)} :
       /\ messages' = h
       /\ text' = UserMsg(h)
       /\ e' = Some(ent)
       /\ nq' = q
       /\ score' = IF TruthyText(q) THEN None ELSE Some(score_lead(ent))
       /\ local' = RenderReply(ent, q)
  /\ prev' = IF pc = "chat_done"
               THEN Some([user_msg |-> text, turns |-> Len(messages), local |-> local])
               ELSE prev
  /\ llm' = None
  /\ obtained' = FALSE
  /\ posts' = <<>>
  /\ crm' = None
  /\ out' = None
  /\ pc' = "chat_llm"
  /\ UNCHANGED env

\* call_openai without a key
MissingKeyText == <<"[","M","i","s","s","i","n","g"," ","O","P","E","N","A","I","_","A","P","I","_","K","E","Y","]">>

\* call_openai: if not OPENAI_API_KEY
CallOpenAINoKey ==
  /\ pc = "chat_llm"
  /\ ~env.openai_key
  /\ llm' = Some(MissingKeyText)
  /\ obtained' = FALSE
  /\ pc' = "chat_reply"
  /\ UNCHANGED <<text, e, nq, score, local, env, messages, posts, crm, out, prev>>

\* call_openai: the service answers 2xx and the content of the body is returned
CallOpenAICompletion ==
  /\ pc = "chat_llm"
  /\ env.openai_key
  /\ \E c \in Completions : llm' = c
  /\ obtained' = TRUE
  /\ pc' = "chat_reply"
  /\ UNCHANGED <<text, e, nq, score, local, env, messages, posts, crm, out, prev>>

\* f"[LLM error: {e}]"
LlmErrorText(msg) == <<"[","L","L","M"," ","e","r","r","o","r",":"," ">> \o msg \o <<"]">>

\* call_openai: a timeout, a non-2xx status or a malformed body is caught
CallOpenAIFailure ==
  /\ pc = "chat_llm"
  /\ env.openai_key
  /\ \E msg \in LlmFailures : llm' = Some(LlmErrorText(msg))
  /\ obtained' = FALSE
  /\ pc' = "chat_reply"
  /\ UNCHANGED <<text, e, nq, score, local, env, messages, posts, crm, out, prev>>

MinReplyLen == 10

\* if llm and "[LLM error" not in llm and len(llm.strip()) > 10
LlmAccepted(x) ==
  /\ TruthyStr(x)
  /\ ~Contains(x[1], <<"[","L","L","M"," ","e","r","r","o","r">>)
  /\ Len(strip(x[1])) > MinReplyLen

\* chat, after the await: the LLM text or the local reply
ChatEnd ==
  /\ pc = "chat_reply"
  /\ out' = Some([reply |-> IF LlmAccepted(llm) THEN TextReply(llm[1]) ELSE local])
  /\ pc' = "chat_done"
  /\ UNCHANGED <<text, e, nq, score, local, env, messages, llm, obtained,
                 posts, crm, prev>>

\* extract, up to the await of post_to_crm: the lead and its score
ExtractBegin ==
  /\ Ready
  /\ \E transcript \in Utterances :
     \E ent \in {Extracted[transcript]} :
       /\ text' = transcript
       /\ e' = Some(ent)
       /\ score' = Some(score_lead(ent))
  /\ nq' = None
  /\ local' = NoReply
  /\ messages' = <<>>
  /\ llm' = None
  /\ obtained' = FALSE
  /\ posts' = <<>>
  /\ crm' = None
  /\ out' = None
  /\ pc' = "crm"
  /\ UNCHANGED <<env, prev>>

\* what post_to_crm makes of one post: a response with a status code, or an
\* exception of the client
Response(code) == [kind |-> "response", code |-> code]
Failure == [kind |-> "exception", code |-> 0]

\* fault variant: 200 <= r.status_code <= 300
CrmResult_Through300(p) ==
  IF p.kind = "response"
    THEN IF 200 <= p.code /\ p.code <= 300
           THEN [status |-> "sent", note |-> p]
           ELSE [status |-> "error", note |-> p]
    ELSE [status |-> "error", note |-> p]

\* the try block of post_to_crm: (status, note) for the outcome p of the post
CrmResult(p) ==
  IF p.kind = "response"
    THEN IF 200 <= p.code /\ p.code < 300
           THEN [status |-> "sent", note |-> p]
           ELSE [status |-> "error", note |-> p]
    ELSE [status |-> "error", note |-> p]

\* post_to_crm: if not url: return "skipped", "No CRM_WEBHOOK_URL set"
PostToCrmSkipped ==
  /\ pc = "crm"
  /\ strip(env.crm_url) = <<>>
  /\ crm' = Some([status |-> "skipped", note |-> [kind |-> "no url", code |-> 0]])
  /\ pc' = "crm_done"
  /\ UNCHANGED <<text, e, nq, score, local, env, messages, llm, obtained,
                 posts, out, prev>>

\* post_to_crm: the one client.post, answered with a status code
PostToCrmResponse ==
  /\ pc = "crm"
  /\ strip(env.crm_url) # <<>>
  /\ \E code \in CrmStatuses :
       /\ posts' = Append(posts, Response(code))
       /\ crm' = Some(CrmResult(Response(code)))
  /\ pc' = "crm_done"
  /\ UNCHANGED <<text, e, nq, score, local, env, messages, llm, obtained,
                 out, prev>>

\* post_to_crm: the one client.post raises; except Exception returns "error"
PostToCrmException ==
  /\ pc = "crm"
  /\ strip(env.crm_url) # <<>>
  /\ posts' = Append(posts, Failure)
  /\ crm' = Some(CrmResult(Failure))
  /\ pc' = "crm_done"
  /\ UNCHANGED <<text, e, nq, score, local, env, messages, llm, obtained,
                 out, prev>>

\* extract, after the await: the response body
ExtractEnd ==
  /\ pc = "crm_done"
  /\ out' = Some([customer_name    |-> None,
                  customer_age     |-> e[1].age,
                  state_code       |-> e[1].state,
                  insurance_type   |-> e[1].coverage,
                  current_provider |-> e[1].provider,
                  monthly_budget   |-> e[1].budget,
                  priority_level   |-> e[1].urgency,
                  lead_score       |-> score,
                  crm_status       |-> crm[1].status,
                  crm_note         |-> crm[1].note])
  /\ pc' = "extract_done"
  /\ UNCHANGED <<text, e, nq, score, local, env, messages, llm, obtained,
                 posts, crm, prev>>

Next ==
  \/ ChatBegin
  \/ CallOpenAINoKey
  \/ CallOpenAICompletion
  \/ CallOpenAIFailure
  \/ ChatEnd
  \/ ExtractBegin
  \/ PostToCrmSkipped
  \/ PostToCrmResponse
  \/ PostToCrmException
  \/ ExtractEnd

Spec == Init /\ [][Next]_vars

-----------------------------------------------------------------------------
(* Properties of the handlers *)

LastContent(msgs) == IF msgs = <<>> THEN <<>> ELSE msgs[Len(msgs)]

\* the service delivered a completion that is non-empty and longer than 10
\* characters after trimming
GoodCompletion ==
  /\ obtained
  /\ llm # None
  /\ llm[1] # <<>>
  /\ Len(strip(llm[1])) > 10

\* the strings call_openai makes up itself
HelperTexts == {MissingKeyText} \cup {LlmErrorText(msg) : msg \in LlmFailures}

\* C2: the reply of /chat is the LLM's text only when the service delivered a
\* completion that is non-empty and longer than 10 characters after trimming;
\* in every other case it is the deterministic local reply of the last
\* message, and no string made up by the LLM helper itself is ever the reply.
C2_LlmOrLocal ==
  pc = "chat_done" =>
    LET r == out[1].reply
    IN /\ r.kind = "text" => (GoodCompletion /\ r.raw = llm[1])
       /\ ~GoodCompletion => r = ReplyFor(Extracted[LastContent(messages)])
       /\ ~(r.kind = "text" /\ r.raw \in HelperTexts)

CrmRetries == 3

\* C3: a CRM post that fails is tried again after the backoff until the fixed
\* retry count is used up, and only then is the failure reported.
C3_Retried ==
  (pc \in {"crm_done", "extract_done"} /\ crm[1].status = "error"
     /\ crm[1].note.kind = "exception")
    => Len(posts) = CrmRetries

\* a webhook URL is configured when the variable holds more than blanks
UrlConfigured == \E i \in 1..Len(env.crm_url) : env.crm_url[i] # " "

Is2xx(p) == p.kind = "response" /\ p.code \in 200..299

\* C6: /extract reports the delivery as sent, skipped or error with a note:
\* skipped exactly when no webhook URL is configured, sent exactly when the
\* post returned 2xx, error for a non-2xx status or an exception; whatever
\* the outcome the handler returns, with the lead fields and the lead_score
\* that extract_entities and score_lead compute from the transcript.
C6_Delivery ==
  /\ pc = "crm_done" => (crm # None /\ ENABLED ExtractEnd)
  /\ pc = "extract_done" =>
       LET o == out[1]
           lead == extract_entities(text)
       IN /\ o.crm_status \in {"sent", "skipped", "error"}
          /\ o.crm_note.kind \in {"no url", "response", "exception"}
          /\ (o.crm_status = "skipped") <=> ~UrlConfigured
          /\ (o.crm_status = "sent") <=> (posts # <<>> /\ Is2xx(posts[Len(posts)]))
          /\ (o.crm_status = "error") <=> (posts # <<>> /\ ~Is2xx(posts[Len(posts)]))
          /\ o.insurance_type = lead.coverage
          /\ o.state_code = lead.state
          /\ o.customer_age = lead.age
          /\ o.monthly_budget = lead.budget
          /\ o.priority_level = lead.urgency
          /\ o.current_provider = lead.provider
          /\ o.lead_score = Some(score_lead(lead))

\* the post raised, and the complete lead came back with its score of 7
C6_Witness ==
  /\ pc = "extract_done"
  /\ posts # <<>> /\ posts[Len(posts)].kind = "exception"
  /\ out[1].crm_status = "error"
  /\ out[1].insurance_type = Some(<<"l","i","f","e">>)
  /\ out[1].state_code = Some(<<"C","A">>)
  /\ out[1].lead_score = Some(7)

InChat == pc \in {"chat_llm", "chat_reply", "chat_done"}

\* C10: the deterministic reply of a turn is a function of the last message of
\* the history only: the record is the one extracted from the last message,
\* so a field given only in an earlier message is absent and asked for again,
\* and a chat served before with the same last message got the same reply.
C10_LastMessageOnly ==
  InChat =>
    /\ text = LastContent(messages)
    /\ e = Some(Extracted[LastContent(messages)])
    /\ local = ReplyFor(Extracted[LastContent(messages)])
    /\ \A k \in DOMAIN e[1] :
         Extracted[LastContent(messages)][k] = None => e[1][k] = None
    /\ (prev # None /\ prev[1].user_msg = LastContent(messages))
         => prev[1].local = local

\* turn 1 gave the state, turn 2 the coverage: the state is asked for again,
\* with the reply a one-message chat ending the same way got before
C10_Witness ==
  /\ pc = "chat_done"
  /\ Len(messages) = 2
  /\ Extracted[messages[1]].state # None
  /\ e[1].state = None
  /\ e[1].coverage # None
  /\ local.kind = "question" /\ local.ask = Q_state
  /\ prev # None
  /\ prev[1].turns = 1
  /\ prev[1].user_msg = LastContent(messages)
  /\ prev[1].local = local

=============================================================================
